---- MODULE Spec2Model ----
(***************************************************************************)
(* A model of volt's package-resolution core, src/utils/src/npm.rs:        *)
(* get_version (one resolution: specifier classification, the request      *)
(* loop with its retry counter, version selection, integrity               *)
(* normalisation) and get_versions (the ordered concurrent batch).         *)
(*                                                                         *)
(* Strings are sequences of one-character strings, so that the code's      *)
(* matches/contains/split/replace are computed on characters.              *)
(***************************************************************************)
EXTENDS Integers, Sequences, FiniteSets, TLC

(* crate::constants::MAX_RETRIES. constants.rs is not among the sources;   *)
(* every property below is stated in terms of MAX_RETRIES, not its value.  *)
MAX_RETRIES == 2

(* Bounds of the exploration. *)
MaxBatch == 2
MaxRequests == 4
MaxLen == 3

(* An absent JSON value / None. *)
Null == <<"null">>

(***************************************************************************)
(* String helpers: str::matches(..).count(), str::contains, str::split,    *)
(* str::replace.                                                           *)
(***************************************************************************)
Count(s, c) == Cardinality({i \in 1..Len(s) : s[i] = c})

Contains(s, c) == \E i \in 1..Len(s) : s[i] = c

(* s.split(c): the pieces between the occurrences of c, in order. *)
RECURSIVE Split(_, _)
Split(s, c) ==
    IF ~Contains(s, c) THEN <<s>>
    ELSE LET i == CHOOSE j \in 1..Len(s) :
                      s[j] = c /\ \A k \in 1..(j - 1) : s[k] # c
         IN <<SubSeq(s, 1, i - 1)>> \o Split(SubSeq(s, i + 1, Len(s)), c)

(* s.replace(pat, ""): every non-overlapping occurrence of pat, scanning   *)
(* from the left, is removed. pat is never empty here (it begins with @).  *)
RECURSIVE Replace(_, _)
Replace(s, pat) ==
    IF Len(s) < Len(pat) THEN s
    ELSE IF SubSeq(s, 1, Len(pat)) = pat
         THEN Replace(SubSeq(s, Len(pat) + 1, Len(s)), pat)
         ELSE <<s[1]>> \o Replace(Tail(s), pat)

(***************************************************************************)
(* Specifier classification: the if / else-if chain of get_version.        *)
(***************************************************************************)
count(package_name) == Count(package_name, "@")

(* A mutant of Shape: the chain with a default branch, so that whatever    *)
(* is not recognised is resolved as a no-version lookup.                   *)
ShapeDefaulting(package_name) ==
    IF (count(package_name) = 2 /\ Contains(package_name, "/")) THEN "scoped_versioned"
    ELSE IF (count(package_name) = 1 /\ ~Contains(package_name, "/")) THEN "versioned"
    ELSE "latest"

(* A mutant of Shape: the versioned branch taken for one or more @. *)
ShapeLoose(package_name) ==
    IF (count(package_name) = 1 /\ Contains(package_name, "/"))
       \/ (count(package_name) = 0 /\ ~Contains(package_name, "/"))
    THEN "latest"
    ELSE IF count(package_name) = 2 /\ Contains(package_name, "/")
         THEN "scoped_versioned"
         ELSE IF count(package_name) >= 1 /\ ~Contains(package_name, "/")
              THEN "versioned"
              ELSE "unknown"

Shape(package_name) ==
    IF (count(package_name) = 1 /\ Contains(package_name, "/"))
       \/ (count(package_name) = 0 /\ ~Contains(package_name, "/"))
    THEN "latest"
    ELSE IF count(package_name) = 2 /\ Contains(package_name, "/")
         THEN "scoped_versioned"
         ELSE IF count(package_name) = 1 /\ ~Contains(package_name, "/")
              THEN "versioned"
              ELSE "unknown"

(* let input_version = package_name.split("@")...[2] (scoped) or [1]. *)
input_version(package_name) ==
    IF Shape(package_name) = "scoped_versioned"
    THEN Split(package_name, "@")[3]
    ELSE Split(package_name, "@")[2]

(* let name = format!("@{}", input_version); package_name.replace(&name, "") *)
BareName(package_name) ==
    Replace(package_name, <<"@">> \o input_version(package_name))

(* The path of the request: http://registry.npmjs.org/{} *)
RequestPath(package_name) ==
    IF Shape(package_name) = "latest" THEN package_name ELSE BareName(package_name)

(***************************************************************************)
(* semver_rs, as far as get_version uses it: Version::new(k).parse(),      *)
(* Range::new(r).parse(), Range::test, Version::partial_cmp, to_string.    *)
(* Versions are single-digit MAJOR.MINOR.PATCH, with the optional leading  *)
(* v the strict grammar accepts; a range is empty (any version), a number  *)
(* (that major version) or a full version (exactly it).                    *)
(***************************************************************************)
Digits == <<"0", "1", "2", "3">>

IsDigit(c) == \E d \in 1..Len(Digits) : Digits[d] = c

DigitVal(c) == (CHOOSE d \in 1..Len(Digits) : Digits[d] = c) - 1

DigitChar(n) == Digits[n + 1]

RECURSIVE NumVal(_)
NumVal(s) == IF s = <<>> THEN 0 ELSE 10 * NumVal(SubSeq(s, 1, Len(s) - 1)) + DigitVal(s[Len(s)])

NoVersion == [ok |-> FALSE, major |-> 0, minor |-> 0, patch |-> 0]

IsPlainVersion(k) ==
    /\ Len(k) = 5
    /\ IsDigit(k[1]) /\ k[2] = "." /\ IsDigit(k[3]) /\ k[4] = "." /\ IsDigit(k[5])

(* Version::new(k).parse() *)
ParseVersion(k) ==
    LET body == IF Len(k) > 0 /\ k[1] = "v" THEN Tail(k) ELSE k
    IN IF IsPlainVersion(body)
       THEN [ok |-> TRUE, major |-> DigitVal(body[1]), minor |-> DigitVal(body[3]),
             patch |-> DigitVal(body[5])]
       ELSE NoVersion

(* Version::to_string() *)
VersionToString(v) ==
    <<DigitChar(v.major), ".", DigitChar(v.minor), ".", DigitChar(v.patch)>>

(* a.partial_cmp(b) = Less *)
VLess(a, b) ==
    \/ a.major < b.major
    \/ a.major = b.major /\ a.minor < b.minor
    \/ a.major = b.major /\ a.minor = b.minor /\ a.patch < b.patch

(* Range::new(&input_version).parse() *)
ParseRange(r) ==
    IF r = <<>> THEN [ok |-> TRUE, kind |-> "any", major |-> 0, minor |-> 0, patch |-> 0]
    ELSE IF \A i \in 1..Len(r) : IsDigit(r[i])
         THEN [ok |-> TRUE, kind |-> "major", major |-> NumVal(r), minor |-> 0, patch |-> 0]
         ELSE IF IsPlainVersion(r)
              THEN [ok |-> TRUE, kind |-> "exact", major |-> DigitVal(r[1]),
                    minor |-> DigitVal(r[3]), patch |-> DigitVal(r[5])]
              ELSE [ok |-> FALSE, kind |-> "none", major |-> 0, minor |-> 0, patch |-> 0]

(* version_requirement.test(&v) *)
RangeTest(req, v) ==
    CASE req.kind = "any" -> TRUE
      [] req.kind = "major" -> v.major = req.major
      [] req.kind = "exact" ->
            v.major = req.major /\ v.minor = req.minor /\ v.patch = req.patch
      [] OTHER -> FALSE

(* The mutant of SortDescending: the comparator without .reverse(). *)
RECURSIVE SortAscending(_)
SortAscending(vs) ==
    IF vs = {} THEN <<>>
    ELSE LET least == CHOOSE v \in vs : \A w \in vs : ~VLess(w, v)
         IN <<least>> \o SortAscending(vs \ {least})

(* sort_unstable_by(|a, b| a.partial_cmp(b).unwrap().reverse()) *)
RECURSIVE SortDescending(_)
SortDescending(vs) ==
    IF vs = {} THEN <<>>
    ELSE LET greatest == CHOOSE v \in vs : \A w \in vs : ~VLess(v, w)
         IN <<greatest>> \o SortDescending(vs \ {greatest})

(* keys().filter_map(parse).filter(test).collect(), then sorted. Keys that *)
(* parse to the same version give equal elements, which the sort keeps     *)
(* adjacent; the set holds one of them.                                    *)
available_versions(keys, req) ==
    SortDescending({v \in {ParseVersion(k) : k \in {q \in keys : ParseVersion(q).ok}} :
                        RangeTest(req, v)})

(***************************************************************************)
(* The registry document (serde_json::Value) as get_version reads it.      *)
(*   body      "json", "garbage" (from_str(..).unwrap() panics) or "ioerr" *)
(*             (response.text() fails)                                     *)
(*   latest    ["dist-tags"]["latest"].as_str(), Null when not a string    *)
(*   hasVersions, versions   ["versions"].as_object() and its entries      *)
(* and per version: deps (the key count of "dependencies", -1 when it is   *)
(* not an object) and dist (["dist"].as_object()).                         *)
(***************************************************************************)
NoDist ==
    [obj |-> FALSE, hasIntegrity |-> FALSE, integrity |-> <<>>,
     hasShasum |-> FALSE, shasum |-> "", hasTarball |-> FALSE, tarball |-> ""]

(* What indexing a Value with a missing key yields: Value::Null. *)
NullMeta == [deps |-> -1, dist |-> NoDist]

VersionMeta(doc, ver) ==
    IF doc.hasVersions /\ ver \in DOMAIN doc.versions THEN doc.versions[ver] ELSE NullMeta

(***************************************************************************)
(* ssri: an integrity string is whitespace-separated "<algorithm>-<base64>"*)
(* entries; here a sequence of [algorithm, digest] with the digest an      *)
(* opaque base64 text. Algorithm's derived order puts the strongest first. *)
(***************************************************************************)
Algorithms == <<"sha512", "sha384", "sha256", "sha1">>

IsAlgorithm(a) == \E i \in 1..Len(Algorithms) : Algorithms[i] = a

AlgorithmRank(a) == CHOOSE i \in 1..Len(Algorithms) : Algorithms[i] = a

(* hex::encode(base64::decode(digest)). A digest that is itself the hex of *)
(* some bytes is made of base64 characters only and, for a sha1 (40) or a  *)
(* sha512 (128 characters), of whole groups of four: it decodes, to three  *)
(* bytes per group, and the hex of those is half as long again as the      *)
(* digest, so it is another text.                                          *)
HexOfDigest(d) ==
    CASE d = "b64(x)" -> "hex(x)"
      [] d = "b64(y)" -> "hex(y)"
      [] d = "b64(z)" -> "hex(z)"
      [] d = "b64(w)" -> "hex(w)"
      [] d = "b64(\"s\")" -> "hex(\"s\")"
      [] d = "hex(x)" -> "hex(b64dec(hex(x)))"
      [] d = "hex(\"s\")" -> "hex(b64dec(hex(\"s\")))"
      [] OTHER -> "hex(?)"

(* base64::encode(value["shasum"].to_string()): to_string() of a JSON      *)
(* string keeps its quotes.                                                *)
Base64OfShasum(s) ==
    CASE s = "s" -> "b64(\"s\")"
      [] OTHER -> "b64(?)"

(* hashes.sort(): by algorithm (one entry per algorithm in the documents   *)
(* explored here).                                                         *)
RECURSIVE SortHashes(_)
SortHashes(hs) ==
    IF hs = {} THEN <<>>
    ELSE LET first == CHOOSE h \in hs :
                          \A g \in hs : AlgorithmRank(h.algorithm) <= AlgorithmRank(g.algorithm)
         IN <<first>> \o SortHashes(hs \ {first})

(* hash_string.parse::<Integrity>() *)
ParseIntegrity(hash_string) ==
    IF \A i \in 1..Len(hash_string) : IsAlgorithm(hash_string[i].algorithm)
    THEN [ok |-> TRUE, hashes |-> SortHashes({hash_string[i] : i \in 1..Len(hash_string)})]
    ELSE [ok |-> FALSE, hashes |-> <<>>]

NoIntegrity == [prefix |-> "", hex |-> ""]

NoPackage ==
    [some |-> FALSE, name |-> Null, version |-> Null, tarball |-> "", integrity |-> NoIntegrity]

(***************************************************************************)
(* What one resolution ends with. tag is "Ok" (the tuple                   *)
(* (package_name, version, hash, package)), "Err" (a VoltError of the      *)
(* given kind, with the data it carries) or "Panic" (an unwrap or an       *)
(* index that panics); "None" while it runs.                               *)
(***************************************************************************)
NoResult ==
    [tag |-> "None", kind |-> "", name |-> Null, url |-> Null, version |-> Null,
     hash |-> <<>>, integrity |-> NoIntegrity, package |-> NoPackage]

Err(kind, name, url, version, hash) ==
    [tag |-> "Err", kind |-> kind, name |-> name, url |-> url, version |-> version,
     hash |-> hash, integrity |-> NoIntegrity, package |-> NoPackage]

Ok(name, version, integrity, package) ==
    [tag |-> "Ok", kind |-> "", name |-> name, url |-> Null, version |-> version,
     hash |-> <<>>, integrity |-> integrity, package |-> package]

Panic(what) ==
    [tag |-> "Panic", kind |-> what, name |-> Null, url |-> Null, version |-> Null,
     hash |-> <<>>, integrity |-> NoIntegrity, package |-> NoPackage]

(* A mutant of num_deps: the dependency count is not consulted. *)
num_deps_ignored(meta) == 0

(* ["versions"][version]["dependencies"].as_object(): the key count, 0     *)
(* when it is no object.                                                   *)
num_deps(meta) == IF meta.deps >= 0 THEN meta.deps ELSE 0

(* A mutant of hash_string: the shasum is labelled sha512. *)
hash_string_sha512(value) ==
    IF value.hasIntegrity THEN value.integrity
    ELSE <<[algorithm |-> "sha512", digest |-> Base64OfShasum(value.shasum)]>>

(* The integrity field with its quotes removed, or "sha1-" and the base64  *)
(* of the shasum.                                                          *)
hash_string(value) ==
    IF value.hasIntegrity THEN value.integrity
    ELSE <<[algorithm |-> "sha1", digest |-> Base64OfShasum(value.shasum)]>>

(* From integrity.pick_algorithm() to the `match algo`: the hash of the    *)
(* first (strongest) algorithm of the parsed, sorted hashes, as hex, with  *)
(* the prefix the match gives it.                                          *)
NormalizedHash(hashes) ==
    LET algo == hashes[1].algorithm
        found == {i \in 1..Len(hashes) : hashes[i].algorithm = algo}
        hex == HexOfDigest(hashes[CHOOSE i \in found : \A j \in found : i <= j].digest)
    IN CASE algo = "sha1" -> [prefix |-> "sha1", hex |-> hex]
         [] algo = "sha512" -> [prefix |-> "sha512", hex |-> hex]
         [] OTHER -> [prefix |-> "", hex |-> hex]

(***************************************************************************)
(* The tail the three branches share once a version string is selected:    *)
(* num_deps, the dist object, the integrity, the optional VoltPackage.     *)
(* pkg_name and pkg_version are what the branch puts in the VoltPackage.   *)
(***************************************************************************)
Materialize(package_name, doc, selected, pkg_name, pkg_version) ==
    LET meta == VersionMeta(doc, selected)
        value == meta.dist
        integrity == ParseIntegrity(hash_string(value))
        hash == NormalizedHash(integrity.hashes)
        package == IF num_deps(meta) = 0
                   THEN [some |-> TRUE, name |-> pkg_name, version |-> pkg_version,
                         tarball |-> value.tarball, integrity |-> hash]
                   ELSE NoPackage
    IN IF ~value.obj THEN Err("HashLookupError", Null, Null, selected, <<>>)
       ELSE IF ~value.hasIntegrity /\ ~value.hasShasum THEN Panic("index shasum")
       ELSE IF ~integrity.ok THEN Err("HashParseError", Null, Null, Null, hash_string(value))
       ELSE IF integrity.hashes = <<>> THEN Panic("pick_algorithm")
       ELSE IF num_deps(meta) = 0 /\ ~value.hasTarball THEN Panic("index tarball")
       ELSE Ok(package_name, selected, hash, package)

(***************************************************************************)
(* One pass of a branch's `match response.status_mut()` for a response of  *)
(* the given status and body. The result has tag "None" when the match     *)
(* falls through to `retries += 1` and the loop goes round again.          *)
(* status "error" is send_async() failing.                                 *)
(***************************************************************************)
Statuses == {"OK", "NOT_FOUND", "OTHER", "error"}

TooManyRequests(package_name) ==
    Err("TooManyRequests", package_name, package_name, Null, <<>>)

PackageNotFound(package_name) ==
    Err("PackageNotFound", package_name, package_name, Null, <<>>)

VersionLookupError(package_name) ==
    Err("VersionLookupError", package_name, Null, Null, <<>>)

(* A mutant of HandleLatest: any status other than OK and 404 fails at     *)
(* once, as in the scoped versioned branch.                                *)
HandleLatestFailFast(package_name, retries, status, doc) ==
    CASE status = "error" -> Err("NetworkError", Null, Null, Null, <<>>)
      [] status = "OK" ->
            IF doc.body = "ioerr" THEN Err("IoTextRecError", Null, Null, Null, <<>>)
            ELSE IF doc.body = "garbage" THEN Panic("from_str")
            ELSE IF doc.latest = Null THEN VersionLookupError(package_name)
            ELSE Materialize(package_name, doc, doc.latest, package_name, doc.latest)
      [] status = "NOT_FOUND" ->
            IF retries = MAX_RETRIES THEN TooManyRequests(package_name) ELSE NoResult
      [] OTHER -> PackageNotFound(package_name)

(* A mutant of HandleLatest: the highest version listed is taken instead   *)
(* of the one dist-tags.latest names.                                      *)
HandleLatestHighest(package_name, retries, status, doc) ==
    LET available == available_versions(DOMAIN doc.versions, ParseRange(<<>>))
        selected == IF available = <<>> THEN doc.latest ELSE VersionToString(available[1])
    IN CASE status = "error" -> Err("NetworkError", Null, Null, Null, <<>>)
         [] status = "OK" ->
               IF doc.body = "ioerr" THEN Err("IoTextRecError", Null, Null, Null, <<>>)
               ELSE IF doc.body = "garbage" THEN Panic("from_str")
               ELSE IF doc.latest = Null THEN VersionLookupError(package_name)
               ELSE Materialize(package_name, doc, selected, package_name, selected)
         [] status = "NOT_FOUND" ->
               IF retries = MAX_RETRIES THEN TooManyRequests(package_name) ELSE NoResult
         [] OTHER ->
               IF retries = MAX_RETRIES THEN PackageNotFound(package_name) ELSE NoResult

(* if (count == 1 && contains("/")) || (count == 0 && !contains("/")) *)
HandleLatest(package_name, retries, status, doc) ==
    CASE status = "error" -> Err("NetworkError", Null, Null, Null, <<>>)
      [] status = "OK" ->
            IF doc.body = "ioerr" THEN Err("IoTextRecError", Null, Null, Null, <<>>)
            ELSE IF doc.body = "garbage" THEN Panic("from_str")
            ELSE IF doc.latest = Null THEN VersionLookupError(package_name)
            ELSE Materialize(package_name, doc, doc.latest, package_name, doc.latest)
      [] status = "NOT_FOUND" ->
            IF retries = MAX_RETRIES THEN TooManyRequests(package_name) ELSE NoResult
      [] OTHER ->
            IF retries = MAX_RETRIES THEN PackageNotFound(package_name) ELSE NoResult

(* A mutant of SelectVersion: an empty available_versions falls through to *)
(* the retry, as the None arm of the unscoped branch does.                 *)
SelectVersionRetrying(package_name, doc) ==
    LET version_requirement == ParseRange(input_version(package_name))
        available == available_versions(DOMAIN doc.versions, version_requirement)
    IN IF available = <<>> THEN NoResult
       ELSE Materialize(package_name, doc, VersionToString(available[1]),
                        BareName(package_name), input_version(package_name))

(* The Some(value) arm of ["versions"].as_object(), the same in both       *)
(* versioned branches.                                                     *)
SelectVersion(package_name, doc) ==
    LET version_requirement == ParseRange(input_version(package_name))
        available == available_versions(DOMAIN doc.versions, version_requirement)
    IN IF available = <<>> THEN VersionLookupError(package_name)
       ELSE Materialize(package_name, doc, VersionToString(available[1]),
                        BareName(package_name), input_version(package_name))

(* if count == 2 && package_name.contains("/") *)
HandleScopedVersioned(package_name, retries, status, doc) ==
    CASE status = "error" -> Err("NetworkError", Null, Null, Null, <<>>)
      [] status = "OK" ->
            IF doc.body = "ioerr" THEN Err("IoTextRecError", Null, Null, Null, <<>>)
            ELSE IF doc.body = "garbage" THEN Panic("from_str")
            ELSE IF ~doc.hasVersions THEN VersionLookupError(package_name)
            ELSE SelectVersion(package_name, doc)
      [] status = "NOT_FOUND" ->
            IF retries = MAX_RETRIES THEN TooManyRequests(package_name) ELSE NoResult
      [] OTHER -> PackageNotFound(package_name)

(* A mutant of HandleVersioned: any status other than OK and 404 fails at  *)
(* once, as in the scoped versioned branch.                                *)
HandleVersionedFailFast(package_name, retries, status, doc) ==
    CASE status = "error" -> Err("NetworkError", Null, Null, Null, <<>>)
      [] status = "OK" ->
            IF doc.body = "ioerr" THEN Err("IoTextRecError", Null, Null, Null, <<>>)
            ELSE IF doc.body = "garbage" THEN Panic("from_str")
            ELSE IF ~doc.hasVersions THEN NoResult
            ELSE SelectVersion(package_name, doc)
      [] status = "NOT_FOUND" ->
            IF retries = MAX_RETRIES THEN VersionLookupError(package_name) ELSE NoResult
      [] OTHER -> PackageNotFound(package_name)

(* else if count == 1 && !package_name.contains("/") *)
HandleVersioned(package_name, retries, status, doc) ==
    CASE status = "error" -> Err("NetworkError", Null, Null, Null, <<>>)
      [] status = "OK" ->
            IF doc.body = "ioerr" THEN Err("IoTextRecError", Null, Null, Null, <<>>)
            ELSE IF doc.body = "garbage" THEN Panic("from_str")
            ELSE IF ~doc.hasVersions THEN NoResult
            ELSE SelectVersion(package_name, doc)
      [] status = "NOT_FOUND" ->
            IF retries = MAX_RETRIES THEN VersionLookupError(package_name) ELSE NoResult
      [] OTHER ->
            IF retries = MAX_RETRIES THEN PackageNotFound(package_name) ELSE NoResult

HandleResponse(package_name, retries, status, doc) ==
    CASE Shape(package_name) = "latest" -> HandleLatest(package_name, retries, status, doc)
      [] Shape(package_name) = "scoped_versioned" ->
            HandleScopedVersioned(package_name, retries, status, doc)
      [] OTHER -> HandleVersioned(package_name, retries, status, doc)

(***************************************************************************)
(* get_versions: FuturesOrdered yields the output of the future at         *)
(* next_outgoing_index once it is among the completed ones; try_collect    *)
(* pushes each Ok onto the Vec and returns the first Err the stream yields.*)
(***************************************************************************)
(* The mutant of PollNext: FuturesUnordered, yielding whatever completed. *)
PollNextUnordered(queued, next) ==
    IF queued = {} THEN {} ELSE {CHOOSE i \in queued : TRUE}

PollNext(queued, next) == queued \cap {next}

(* A mutant of TryCollect: an Err is skipped and the stream read on. *)
RECURSIVE TryCollectSkippingErr(_, _, _, _)
TryCollectSkippingErr(ts, vec, queued, next) ==
    LET ready == PollNext(queued, next)
        i == CHOOSE j \in ready : TRUE
    IN IF ready = {}
       THEN [returned |-> IF queued = {} /\ \A j \in DOMAIN ts : ts[j].pc = "done"
                          THEN "Ok" ELSE "pending",
             output |-> vec, error |-> NoResult, queued |-> queued, next |-> next]
       ELSE IF ts[i].res.tag = "Err"
            THEN TryCollectSkippingErr(ts, vec, queued \ {i}, next + 1)
            ELSE TryCollectSkippingErr(ts, Append(vec, ts[i].res), queued \ {i}, next + 1)

(* A mutant of TryCollect: the batch fails with the error of whichever     *)
(* future has failed, as try_join_all does, without waiting for the ones   *)
(* before it.                                                              *)
RECURSIVE TryCollectEager(_, _, _, _)
TryCollectEager(ts, vec, queued, next) ==
    LET ready == PollNext(queued, next)
        i == CHOOSE j \in ready : TRUE
        failed == {j \in queued : ts[j].res.tag = "Err"}
        f == CHOOSE j \in failed : TRUE
    IN IF failed # {}
       THEN [returned |-> "Err", output |-> vec, error |-> ts[f].res,
             queued |-> queued \ {f}, next |-> next]
       ELSE IF ready = {}
       THEN [returned |-> IF queued = {} /\ \A j \in DOMAIN ts : ts[j].pc = "done"
                          THEN "Ok" ELSE "pending",
             output |-> vec, error |-> NoResult, queued |-> queued, next |-> next]
       ELSE TryCollectEager(ts, Append(vec, ts[i].res), queued \ {i}, next + 1)

RECURSIVE TryCollect(_, _, _, _)
TryCollect(ts, vec, queued, next) ==
    LET ready == PollNext(queued, next)
        i == CHOOSE j \in ready : TRUE
    IN IF ready = {}
       THEN [returned |-> IF queued = {} /\ \A j \in DOMAIN ts : ts[j].pc = "done"
                          THEN "Ok" ELSE "pending",
             output |-> vec, error |-> NoResult, queued |-> queued, next |-> next]
       ELSE IF ts[i].res.tag = "Err"
            THEN [returned |-> "Err", output |-> vec, error |-> ts[i].res,
                  queued |-> queued \ {i}, next |-> next + 1]
            ELSE TryCollect(ts, Append(vec, ts[i].res), queued \ {i}, next + 1)

(***************************************************************************)
(* The inputs explored: specifiers and registry documents.                 *)
(***************************************************************************)
Chars == {"@", "/", "a", "1"}

Strings(n) == UNION {[1..k -> Chars] : k \in 0..n}

(* Every string of at most MaxLen characters, and the longer shapes:       *)
(* scoped with a range, a full version as the range, more than two @, and  *)
(* a scope that begins with the range text.                                *)
Specifiers ==
    Strings(MaxLen) \cup
    { <<"@", "a", "/", "a", "@", "1">>,
      <<"a", "@", "1", ".", "1", ".", "0">>,
      <<"a", "@", "b", "@", "c", "@", "d">>,
      <<"@", "1", "/", "a", "@", "1">> }

BatchSpecifiers ==
    { <<"a">>, <<"b">>, <<"@", "a", "/", "b", "@", "1">>,
      <<"a", "@", "b", "@", "c", "@", "d">> }

Batches(n) == UNION {[1..k -> BatchSpecifiers] : k \in 1..n}

V100 == <<"1", ".", "0", ".", "0">>
V110 == <<"1", ".", "1", ".", "0">>
V200 == <<"2", ".", "0", ".", "0">>
Vv210 == <<"v", "2", ".", "1", ".", "0">>
Junk == <<"n", "e", "x", "t">>

Keys == {V100, V110, V200, Vv210, Junk}

Sha512 == [algorithm |-> "sha512", digest |-> "b64(x)"]
Sha1 == [algorithm |-> "sha1", digest |-> "b64(y)"]

Sha256 == [algorithm |-> "sha256", digest |-> "b64(z)"]
Sha384 == [algorithm |-> "sha384", digest |-> "b64(w)"]

DistIntegrity ==
    [obj |-> TRUE, hasIntegrity |-> TRUE, integrity |-> <<Sha512>>,
     hasShasum |-> TRUE, shasum |-> "s", hasTarball |-> TRUE, tarball |-> "t"]

DistBoth ==
    [obj |-> TRUE, hasIntegrity |-> TRUE, integrity |-> <<Sha1, Sha512>>,
     hasShasum |-> TRUE, shasum |-> "s", hasTarball |-> TRUE, tarball |-> "t"]

DistShasum ==
    [obj |-> TRUE, hasIntegrity |-> FALSE, integrity |-> <<>>,
     hasShasum |-> TRUE, shasum |-> "s", hasTarball |-> TRUE, tarball |-> "t"]

(* A dist object whose integrity field is the given string. *)
DistOf(integrity) == [DistIntegrity EXCEPT !.integrity = integrity]

(* The string Materialize puts out, read as a published integrity string:  *)
(* "<prefix>-<hex>", an entry of that algorithm whose digest is the hex.   *)
Republished(hash) == <<[algorithm |-> hash.prefix, digest |-> hash.hex]>>

(* The string Materialize puts out for a version published with dist. *)
CanonicalOf(dist) == NormalizedHash(ParseIntegrity(hash_string(dist)).hashes)

(* Those for a version published with a sha512 integrity and for one       *)
(* published with a shasum only.                                           *)
CanonicalOutputs == {CanonicalOf(DistIntegrity), CanonicalOf(DistShasum)}

(* How a document's versions are filled in: three ways to assign the       *)
(* dependency count and the dist object to the keys, and two more that     *)
(* vary the published integrity string only.                               *)
MetaVariants == 1..3

IntegrityVariants == 4..5

MetaOf(variant, key) ==
    CASE variant = 1 -> [deps |-> 0, dist |-> DistIntegrity]
      [] variant = 2 ->
            (CASE key = V100 -> [deps |-> 2, dist |-> DistIntegrity]
               [] key = V110 -> [deps |-> -1, dist |-> DistShasum]
               [] key = V200 -> [deps |-> 0, dist |-> NoDist]
               [] OTHER -> [deps |-> 0, dist |-> DistBoth])
      [] variant = 3 ->
            (CASE key = V100 -> [deps |-> 0, dist |-> DistShasum]
               [] key = V110 -> [deps |-> 1, dist |-> DistBoth]
               [] key = V200 -> [deps |-> -1, dist |-> DistIntegrity]
               [] OTHER -> [deps |-> 1, dist |-> NoDist])
      [] variant = 4 ->
            (CASE key = V100 -> [deps |-> 0, dist |-> DistOf(<<Sha256>>)]
               [] key = V110 -> [deps |-> 0, dist |-> DistOf(<<Sha1, Sha384>>)]
               [] key = V200 ->
                     [deps |-> 0,
                      dist |-> DistOf(Republished(CanonicalOf(DistIntegrity)))]
               [] OTHER ->
                     [deps |-> 0,
                      dist |-> DistOf(Republished(CanonicalOf(DistShasum)))])
      [] OTHER ->
            (CASE key = V100 ->
                     [deps |-> 0, dist |-> DistOf(<<[algorithm |-> "md5", digest |-> "b64(x)"]>>)]
               [] key = V110 -> [deps |-> 0, dist |-> DistOf(<<Sha256, Sha512>>)]
               [] key = V200 -> [deps |-> 0, dist |-> DistOf(<<Sha384>>)]
               [] OTHER -> [deps |-> 0, dist |-> DistOf(<<Sha256, Sha1>>)])

JsonDoc(latest, keys, variant) ==
    [body |-> "json", latest |-> latest, hasVersions |-> TRUE,
     versions |-> [k \in keys |-> MetaOf(variant, k)]]

NoVersionsDoc(latest) ==
    [body |-> "json", latest |-> latest, hasVersions |-> FALSE,
     versions |-> [k \in {} |-> NullMeta]]

GarbageDoc == [NoVersionsDoc(Null) EXCEPT !.body = "garbage"]

IoErrDoc == [NoVersionsDoc(Null) EXCEPT !.body = "ioerr"]

(* No response body held: before the first response, and after a response *)
(* whose status was not OK.                                                *)
NoText == [NoVersionsDoc(Null) EXCEPT !.body = "none"]

Latests == {Null, V100, V110, V200, Junk}

Docs ==
    {GarbageDoc, IoErrDoc}
    \cup {NoVersionsDoc(l) : l \in Latests}
    \cup {JsonDoc(l, ks, m) : l \in Latests, ks \in SUBSET Keys, m \in MetaVariants}
    \cup {JsonDoc(l, {V100, V110, V200, Junk}, m) : l \in Latests, m \in IntegrityVariants}

BatchDocs == {NoVersionsDoc(Null), JsonDoc(V110, {V100, V110}, 1)}

Served(which) == IF which = "any" THEN Docs ELSE BatchDocs

(***************************************************************************)
(* State. One get_versions call:                                           *)
(*   packages   its argument                                               *)
(*   registry   which documents the registry may answer with (Served)      *)
(*   tasks      per input position, the get_version future: where it is    *)
(*              (pc), its retries, the requests it has sent, the statuses  *)
(*              it has received, the path of the request in flight, the    *)
(*              body (text) of the last response when its status was OK,   *)
(*              its result                                                 *)
(*   finished   the positions in the order their futures completed         *)
(*   queued_outputs, next_outgoing_index   the FuturesOrdered              *)
(*   output, returned, error   try_collect's Vec and what the call returned*)
(***************************************************************************)
VARIABLES packages, registry, tasks, finished, queued_outputs, next_outgoing_index,
          output, returned, error

(***************************************************************************)
(* State of one Remove::exec call:                                         *)
(*   args          app.args                                                *)
(*   file          the dependencies of package.json on disk, and           *)
(*   original      what they were when exec was called                     *)
(*   exec_pc       where exec is: "start", "spawn" (the for loop over      *)
(*                 packages), "join" (the loop over handles), "Ok", "exit"; *)
(*                 "idle" when no Remove runs                              *)
(*   removals      exec's `packages`, the arguments it keeps               *)
(*   dependencies  package_file's dependencies, in memory behind the Mutex *)
(*   mutex         the handle that holds the lock, 0 when it is free       *)
(*   handles       per spawned task: where it is (pc), its package, and    *)
(*                 what its save() is about to write (buffer)              *)
(*   joined        the number of handles exec has awaited                  *)
(***************************************************************************)
VARIABLES args, file, original, exec_pc, removals, dependencies, mutex, handles, joined

resolve_vars == <<packages, registry, tasks, finished, queued_outputs, next_outgoing_index,
                  output, returned, error>>

remove_vars == <<args, file, original, exec_pc, removals, dependencies, mutex, handles, joined>>

vars == <<resolve_vars, remove_vars>>

(* No Remove::exec call is under way. *)
RemoveIdle ==
    /\ args = <<>>
    /\ file = {}
    /\ original = {}
    /\ exec_pc = "idle"
    /\ removals = <<>>
    /\ dependencies = {}
    /\ mutex = 0
    /\ handles = <<>>
    /\ joined = 0

NewTask ==
    [pc |-> "init", retries |-> 0, sent |-> 0, seen |-> {}, url |-> Null,
     text |-> NoText, res |-> NoResult]

InitWith(batches, docs) ==
    /\ packages \in batches
    /\ registry = docs
    /\ tasks = [i \in DOMAIN packages |-> NewTask]
    /\ finished = <<>>
    /\ queued_outputs = {}
    /\ next_outgoing_index = 1
    /\ output = <<>>
    /\ returned = "pending"
    /\ error = NoResult
    /\ RemoveIdle

(* A batch of up to MaxBatch specifiers. *)
Init == InitWith(Batches(MaxBatch), "few")

(* One resolution, of any specifier, against any document. *)
InitResolve == InitWith({<<s>> : s \in Specifiers}, "any")

(* The future at position i has completed (or panicked): the stream is     *)
(* polled on, and the call returns when it yields an Err or ends. A panic  *)
(* unwinds through get_versions.                                           *)
Completes(i, ts) ==
    LET c == TryCollect(ts, output, queued_outputs \cup {i}, next_outgoing_index)
    IN /\ tasks' = ts
       /\ finished' = Append(finished, i)
       /\ IF ts[i].res.tag = "Panic"
          THEN /\ returned' = "Panic"
               /\ UNCHANGED <<queued_outputs, next_outgoing_index, output, error>>
          ELSE /\ returned' = c.returned
               /\ output' = c.output
               /\ error' = c.error
               /\ queued_outputs' = c.queued
               /\ next_outgoing_index' = c.next

(* The first poll of get_version(packages[i]): up to the first             *)
(* send_async().await, or to the return of the unknown-specifier error.    *)
Start(i) ==
    /\ returned = "pending"
    /\ tasks[i].pc = "init"
    /\ UNCHANGED <<packages, registry, remove_vars>>
    /\ LET package_name == packages[i]
       IN CASE Shape(package_name) = "unknown" ->
                 Completes(i, [tasks EXCEPT ![i].pc = "done",
                                            ![i].res = Err("UnknownError", Null, Null, Null, <<>>)])
            [] Shape(package_name) \in {"versioned", "scoped_versioned"}
               /\ ~ParseRange(input_version(package_name)).ok ->
                 Completes(i, [tasks EXCEPT ![i].pc = "done",
                                            ![i].res = Panic("Range::parse")])
            [] OTHER ->
                 /\ tasks' = [tasks EXCEPT ![i].pc = "await", ![i].sent = 1,
                                           ![i].url = RequestPath(package_name)]
                 /\ UNCHANGED <<finished, queued_outputs, next_outgoing_index, output,
                                returned, error>>

(* A mutant of retries: one counter shared by every call, which each       *)
(* call's `retries += 1` increments.                                       *)
retries_shared(ts, i) ==
    LET Sum[k \in 0..Len(ts)] == IF k = 0 THEN 0 ELSE Sum[k - 1] + ts[k].retries
    IN Sum[Len(ts)]

(* `let mut retries = 0;`: a local of the call, so the counter the call at *)
(* position i tests is its own.                                            *)
retries(ts, i) == ts[i].retries

(* The response to the request in flight arrives: the match on its status, *)
(* then either a return or `retries += 1` and the next request.            *)
Respond(i, status, doc) ==
    /\ returned = "pending"
    /\ tasks[i].pc = "await"
    /\ UNCHANGED <<packages, registry, remove_vars>>
    /\ LET t == tasks[i]
           r == HandleResponse(packages[i], retries(tasks, i), status, doc)
       IN IF r.tag = "None"
          THEN /\ t.sent < MaxRequests
               /\ tasks' = [tasks EXCEPT ![i].retries = t.retries + 1,
                                         ![i].sent = t.sent + 1,
                                         ![i].seen = t.seen \cup {status},
                                         ![i].text = IF status = "OK" THEN doc ELSE NoText]
               /\ UNCHANGED <<finished, queued_outputs, next_outgoing_index, output,
                              returned, error>>
          ELSE Completes(i, [tasks EXCEPT ![i].pc = "done", ![i].res = r,
                                          ![i].seen = t.seen \cup {status},
                                          ![i].text = IF status = "OK" THEN doc ELSE NoText])

Next ==
    \/ \E i \in DOMAIN packages : Start(i)
    \/ \E i \in DOMAIN packages, status \in Statuses \ {"OK"} :
            Respond(i, status, NoText)
    \/ \E i \in DOMAIN packages, doc \in Served(registry) : Respond(i, "OK", doc)

Spec == Init /\ [][Next]_vars

SpecResolve == InitResolve /\ [][Next]_vars

(***************************************************************************)
(* Remove::exec. The package names explored include "add", the one string  *)
(* exec compares its arguments with.                                       *)
(***************************************************************************)
MaxArgs == 2

PackageNames == {"a", "b", "add"}

ArgLists(n) == UNION {[1..k -> PackageNames] : k \in 0..n}

(* for arg in &app.args { if arg != "add" { packages.push(arg.clone()) } } *)
KeptArgs(as) == SelectSeq(as, LAMBDA arg : arg # "add")

(* dependencies.remove(&package) *)
Removed(deps, package) == deps \ {package}

NewHandle(package) == [pc |-> "spawned", package |-> package, buffer |-> {}]

(* exec is called with any arguments, in a directory whose package.json    *)
(* lists any of the names.                                                 *)
InitRemove ==
    /\ packages = <<>>
    /\ registry = "few"
    /\ tasks = <<>>
    /\ finished = <<>>
    /\ queued_outputs = {}
    /\ next_outgoing_index = 1
    /\ output = <<>>
    /\ returned = "pending"
    /\ error = NoResult
    /\ args \in ArgLists(MaxArgs)
    /\ original \in SUBSET PackageNames
    /\ file = original
    /\ exec_pc = "start"
    /\ removals = <<>>
    /\ dependencies = {}
    /\ mutex = 0
    /\ handles = <<>>
    /\ joined = 0

(* Up to the for loop: exit(1) without arguments; otherwise the arguments  *)
(* are filtered and package.json is loaded into the Mutex.                 *)
ExecBegin ==
    /\ exec_pc = "start"
    /\ IF Len(args) = 0
       THEN /\ exec_pc' = "exit"
            /\ UNCHANGED <<removals, dependencies>>
       ELSE /\ removals' = KeptArgs(args)
            /\ dependencies' = file
            /\ exec_pc' = IF KeptArgs(args) = <<>> THEN "join" ELSE "spawn"
    /\ UNCHANGED <<resolve_vars, args, file, original, mutex, handles, joined>>

(* handles.push(tokio::spawn(..)) for the next package. *)
Spawn ==
    /\ exec_pc = "spawn"
    /\ handles' = Append(handles, NewHandle(removals[Len(handles) + 1]))
    /\ exec_pc' = IF Len(handles') = Len(removals) THEN "join" ELSE "spawn"
    /\ UNCHANGED <<resolve_vars, args, file, original, removals, dependencies, mutex, joined>>

(* package_file.lock().await returns the guard. *)
Lock(k) ==
    /\ handles[k].pc = "spawned"
    /\ mutex = 0
    /\ mutex' = k
    /\ handles' = [handles EXCEPT ![k].pc = "locked"]
    /\ UNCHANGED <<resolve_vars, args, file, original, exec_pc, removals, dependencies, joined>>

(* package_json_file.dependencies.remove(&package) *)
RemoveDependency(k) ==
    /\ handles[k].pc = "locked"
    /\ dependencies' = Removed(dependencies, handles[k].package)
    /\ handles' = [handles EXCEPT ![k].pc = "removed"]
    /\ UNCHANGED <<resolve_vars, args, file, original, exec_pc, removals, mutex, joined>>

(* package_json_file.save(): the manifest in memory is serialized, *)
SaveSerialize(k) ==
    /\ handles[k].pc = "removed"
    /\ handles' = [handles EXCEPT ![k].pc = "serialized", ![k].buffer = dependencies]
    /\ UNCHANGED <<resolve_vars, args, file, original, exec_pc, removals, dependencies,
                   mutex, joined>>

(* and written over package.json. *)
SaveWrite(k) ==
    /\ handles[k].pc = "serialized"
    /\ file' = handles[k].buffer
    /\ handles' = [handles EXCEPT ![k].pc = "saved"]
    /\ UNCHANGED <<resolve_vars, args, original, exec_pc, removals, dependencies, mutex, joined>>

(* A mutant of Unlock: the task completes without its guard being dropped. *)
UnlockKeepingGuard(k) ==
    /\ handles[k].pc = "saved"
    /\ handles' = [handles EXCEPT ![k].pc = "done"]
    /\ UNCHANGED <<resolve_vars, args, file, original, exec_pc, removals, dependencies,
                   mutex, joined>>

(* The end of the task's block: the guard is dropped, the task completes. *)
Unlock(k) ==
    /\ handles[k].pc = "saved"
    /\ mutex' = IF mutex = k THEN 0 ELSE mutex
    /\ handles' = [handles EXCEPT ![k].pc = "done"]
    /\ UNCHANGED <<resolve_vars, args, file, original, exec_pc, removals, dependencies, joined>>

(* handle.await? for the next handle, which has completed. *)
Join ==
    /\ exec_pc = "join"
    /\ joined < Len(handles)
    /\ handles[joined + 1].pc = "done"
    /\ joined' = joined + 1
    /\ UNCHANGED <<resolve_vars, args, file, original, exec_pc, removals, dependencies,
                   mutex, handles>>

(* Ok(()) *)
ExecReturn ==
    /\ exec_pc = "join"
    /\ joined = Len(handles)
    /\ exec_pc' = "Ok"
    /\ UNCHANGED <<resolve_vars, args, file, original, removals, dependencies, mutex,
                   handles, joined>>

NextRemove ==
    \/ ExecBegin
    \/ Spawn
    \/ \E k \in DOMAIN handles : Lock(k)
    \/ \E k \in DOMAIN handles : RemoveDependency(k)
    \/ \E k \in DOMAIN handles : SaveSerialize(k)
    \/ \E k \in DOMAIN handles : SaveWrite(k)
    \/ \E k \in DOMAIN handles : Unlock(k)
    \/ Join
    \/ ExecReturn

SpecRemove == InitRemove /\ [][NextRemove]_vars

(* The tokio runtime keeps polling exec and every spawned task that can    *)
(* make progress; a task waiting for the Mutex is woken when it is free.   *)
FairRemove ==
    /\ WF_vars(ExecBegin) /\ WF_vars(Spawn) /\ WF_vars(Join) /\ WF_vars(ExecReturn)
    /\ \A k \in 1..MaxArgs :
          /\ WF_vars(k \in DOMAIN handles /\ Lock(k))
          /\ WF_vars(k \in DOMAIN handles /\ RemoveDependency(k))
          /\ WF_vars(k \in DOMAIN handles /\ SaveSerialize(k))
          /\ WF_vars(k \in DOMAIN handles /\ SaveWrite(k))
          /\ WF_vars(k \in DOMAIN handles /\ Unlock(k))

SpecRemoveFair == SpecRemove /\ FairRemove

(***************************************************************************)
(* Properties.                                                             *)
(***************************************************************************)
Positions == DOMAIN packages

Done(i) == tasks[i].pc = "done"

Failed(i) == tasks[i].res.tag = "Err"

Succeeded(i) == tasks[i].res.tag = "Ok"

(* C1: when every resolution succeeds, whatever the order in which they    *)
(* complete, get_versions returns as many outcomes as there are input      *)
(* specifiers, and the outcome at position i is the one of the resolution  *)
(* of the specifier at position i, its requested name that specifier.      *)
C1_OutputInInputOrder ==
    returned = "Ok" =>
        /\ Len(output) = Len(packages)
        /\ \A i \in Positions :
              /\ output[i].tag = "Ok"
              /\ output[i].name = packages[i]
              /\ output[i] = tasks[i].res

(* A batch of two different specifiers has returned Ok although the second *)
(* resolution completed before the first.                                  *)
C1_Witness ==
    /\ returned = "Ok"
    /\ Len(packages) = 2
    /\ packages[1] # packages[2]
    /\ finished = <<2, 1>>

(* C2: once a resolution has failed, get_versions never returns a list,    *)
(* partial or full; and as soon as every resolution before the failed one  *)
(* has completed (none panicking), it has returned an error.               *)
C2_AnyFailureFailsBatch ==
    \A i \in Positions :
        Failed(i) =>
            /\ returned # "Ok"
            /\ ((\A j \in Positions : tasks[j].res.tag # "Panic")
                /\ (\A j \in 1..(i - 1) : Done(j)))
               => returned = "Err" /\ error.tag = "Err"

(* The batch has returned an error although a resolution had succeeded and *)
(* its outcome had been collected.                                         *)
C2_Witness ==
    /\ returned = "Err"
    /\ Len(output) >= 1
    /\ \E i \in Positions : Succeeded(i)
    /\ \E i \in Positions : Failed(i) /\ error = tasks[i].res

(* The classification table of the specification: by the number of @ and   *)
(* the presence of /.                                                      *)
TableRoute(s) ==
    LET n == Cardinality({k \in DOMAIN s : s[k] = "@"})
        slash == \E k \in DOMAIN s : s[k] = "/"
    IN CASE (n = 0 /\ ~slash) \/ (n = 1 /\ slash) -> "latest"
         [] (n = 1 /\ ~slash) \/ (n = 2 /\ slash) -> "range"
         [] OTHER -> "malformed"

Recognized(s) == TableRoute(s) # "malformed"

(* C3 (as claimed): a resolution of a recognized specifier that got only   *)
(* 404 responses never retries beyond MAX_RETRIES, ends with               *)
(* TooManyRequests naming the specifier when its counter is MAX_RETRIES,   *)
(* and the batch returns that error.                                       *)
C3_NotFoundExhaustsToTooManyRequests ==
    \A i \in Positions :
        (Recognized(packages[i]) /\ tasks[i].seen = {"NOT_FOUND"}) =>
            /\ tasks[i].retries <= MAX_RETRIES
            /\ Done(i) =>
                  /\ tasks[i].retries = MAX_RETRIES
                  /\ tasks[i].res = TooManyRequests(packages[i])
                  /\ (Len(packages) = 1 => returned = "Err" /\ error = tasks[i].res)

(* C4 (as claimed): no resolution sends more than MAX_RETRIES + 1          *)
(* requests.                                                               *)
C4_AtMostMaxRetriesPlusOneRequests ==
    \A i \in Positions : tasks[i].sent <= MAX_RETRIES + 1

(* C5 (as claimed): in both versioned shapes, a resolution that has        *)
(* received a status other than OK and 404 has failed with PackageNotFound.*)
C5_VersionedFailOnFirstOtherStatus ==
    \A i \in Positions :
        (TableRoute(packages[i]) = "range" /\ "OTHER" \in tasks[i].seen) =>
            Done(i) /\ tasks[i].res = PackageNotFound(packages[i])

(* The step in which the resolution at position i receives its first       *)
(* response with a status other than OK and 404.                           *)
FirstOtherStatus(i) ==
    /\ tasks[i].pc = "await"
    /\ "OTHER" \notin tasks[i].seen
    /\ "OTHER" \in tasks'[i].seen

FailsAtOnce(i, res) ==
    /\ tasks'[i].pc = "done"
    /\ tasks'[i].res = res
    /\ tasks'[i].sent = tasks[i].sent

Retries(i) ==
    /\ tasks'[i].pc = "await"
    /\ tasks'[i].retries = tasks[i].retries + 1
    /\ tasks'[i].sent = tasks[i].sent + 1

(* C5 (amended): for @scope/name@range the first response with a status    *)
(* other than OK and 404 fails the resolution at once with PackageNotFound *)
(* and no further request; for name@range it does so only when the retry   *)
(* counter equals MAX_RETRIES, and otherwise the counter is incremented    *)
(* and another request is sent.                                            *)
C5_OtherStatusByVersionedShape ==
    [][\A i \in Positions :
          (TableRoute(packages[i]) = "range" /\ FirstOtherStatus(i)) =>
              IF Contains(packages[i], "/") \/ tasks[i].retries = MAX_RETRIES
              THEN FailsAtOnce(i, PackageNotFound(packages[i]))
              ELSE Retries(i)]_vars

(* A name@range resolution has been sent a further request after a         *)
(* response with a status other than OK and 404.                           *)
C5_Witness ==
    \E i \in Positions :
        /\ TableRoute(packages[i]) = "range"
        /\ ~Contains(packages[i], "/")
        /\ tasks[i].seen = {"OTHER"}
        /\ tasks[i].pc = "await"
        /\ tasks[i].sent = 2

(* C6: a no-version resolution that got only statuses other than OK and    *)
(* 404 is still running after each of its first MAX_RETRIES responses, and *)
(* ends, with PackageNotFound, exactly when its counter is MAX_RETRIES,    *)
(* having sent MAX_RETRIES + 1 requests.                                   *)
C6_LatestRetriesOtherStatus ==
    \A i \in Positions :
        (TableRoute(packages[i]) = "latest" /\ tasks[i].seen = {"OTHER"}) =>
            /\ tasks[i].retries <= MAX_RETRIES
            /\ tasks[i].sent <= MAX_RETRIES => tasks[i].pc = "await"
            /\ Done(i) =>
                  /\ tasks[i].retries = MAX_RETRIES
                  /\ tasks[i].sent = MAX_RETRIES + 1
                  /\ tasks[i].res = PackageNotFound(packages[i])

(* A no-version resolution has ended with PackageNotFound after            *)
(* MAX_RETRIES + 1 responses, none of them OK or 404.                      *)
C6_Witness ==
    \E i \in Positions :
        /\ TableRoute(packages[i]) = "latest"
        /\ tasks[i].seen = {"OTHER"}
        /\ Done(i)
        /\ tasks[i].sent = MAX_RETRIES + 1
        /\ tasks[i].res.kind = "PackageNotFound"

(* C7: a resolution that has started took the branch the table gives its   *)
(* specifier. Latest lookup: a request for the specifier itself, and never *)
(* the unknown-specifier error nor a range parsed. Range lookup: the range *)
(* after the last @ is parsed (a panic if it is no range) and the request  *)
(* is for the specifier without its @range, never the unknown-specifier    *)
(* error. Anything else: the unknown-specifier error, and nothing sent.    *)
C7_ClassificationFollowsTable ==
    \A i \in Positions :
        tasks[i].pc # "init" =>
            CASE TableRoute(packages[i]) = "latest" ->
                    /\ tasks[i].sent >= 1
                    /\ tasks[i].url = packages[i]
                    /\ tasks[i].res.kind \notin {"UnknownError", "Range::parse"}
              [] TableRoute(packages[i]) = "range" ->
                    /\ tasks[i].res.kind # "UnknownError"
                    /\ \/ tasks[i].res = Panic("Range::parse") /\ tasks[i].sent = 0
                       \/ /\ tasks[i].sent >= 1
                          /\ tasks[i].url # packages[i]
                          /\ tasks[i].res.kind # "Range::parse"
              [] OTHER ->
                    /\ Done(i)
                    /\ tasks[i].res = Err("UnknownError", Null, Null, Null, <<>>)
                    /\ tasks[i].sent = 0

(* A specifier with a / and no @ has ended with the unknown-specifier      *)
(* error.                                                                  *)
C7_Witness ==
    \E i \in Positions :
        /\ Count(packages[i], "@") = 0
        /\ Contains(packages[i], "/")
        /\ Done(i)
        /\ tasks[i].res.kind = "UnknownError"

(* C8: for a specifier of none of the four shapes no request is ever sent  *)
(* and no response received, and its resolution ends with the              *)
(* unknown-specifier error.                                                *)
C8_MalformedFailsBeforeAnyRequest ==
    \A i \in Positions :
        ~Recognized(packages[i]) =>
            /\ tasks[i].sent = 0
            /\ tasks[i].seen = {}
            /\ tasks[i].url = Null
            /\ Done(i) => tasks[i].res.tag = "Err" /\ tasks[i].res.kind = "UnknownError"

(* The resolution of a@b@c@d has ended with the unknown-specifier error.   *)
C8_Witness ==
    \E i \in Positions :
        /\ packages[i] = <<"a", "@", "b", "@", "c", "@", "d">>
        /\ Done(i)
        /\ tasks[i].res.kind = "UnknownError"
        /\ tasks[i].sent = 0

(* The resolution at position i returned in the arm of an OK response      *)
(* whose body parsed as JSON.                                              *)
ReturnedOnOk(i) == Done(i) /\ tasks[i].text.body = "json"

(* C9: a no-version resolution that returns on an OK response fails with   *)
(* VersionLookupError naming the specifier when the document has no        *)
(* dist-tags.latest, and otherwise any outcome carries exactly that value  *)
(* as resolved version, whether or not it is a semver version and whatever *)
(* other versions the document lists; no range is parsed.                  *)
C9_LatestIsDistTag ==
    \A i \in Positions :
        (TableRoute(packages[i]) = "latest" /\ ReturnedOnOk(i)) =>
            /\ tasks[i].text.latest = Null <=> tasks[i].res = VersionLookupError(packages[i])
            /\ Succeeded(i) => tasks[i].res.version = tasks[i].text.latest
            /\ tasks[i].res.kind # "Range::parse"

(* A no-version resolution has resolved to a dist-tags.latest that is not  *)
(* the highest version of the document.                                    *)
C9_Witness ==
    \E i \in Positions :
        /\ TableRoute(packages[i]) = "latest"
        /\ ReturnedOnOk(i)
        /\ Succeeded(i)
        /\ tasks[i].res.version = V100
        /\ V200 \in DOMAIN tasks[i].text.versions

(* The versions of a document that parse as semver and satisfy the range   *)
(* of the specifier.                                                       *)
Satisfying(s, doc) ==
    {v \in {ParseVersion(k) : k \in DOMAIN doc.versions} :
        v.ok /\ RangeTest(ParseRange(input_version(s)), v)}

(* C10: the resolved version of a versioned resolution's outcome is a      *)
(* version of the document that satisfies the range, and no version of the *)
(* document that parses and satisfies the range is greater.                *)
C10_SelectsMaximumSatisfying ==
    \A i \in Positions :
        (TableRoute(packages[i]) = "range" /\ ReturnedOnOk(i) /\ Succeeded(i)) =>
            LET selected == ParseVersion(tasks[i].res.version)
            IN /\ selected \in Satisfying(packages[i], tasks[i].text)
               /\ \A v \in Satisfying(packages[i], tasks[i].text) : ~VLess(selected, v)

(* name@1 has resolved to 1.1.0 against a document that also lists 1.0.0,  *)
(* 2.0.0 and a key that is no version.                                     *)
C10_Witness ==
    \E i \in Positions :
        /\ TableRoute(packages[i]) = "range"
        /\ Succeeded(i)
        /\ tasks[i].res.version = V110
        /\ {V100, V200, Junk} \subseteq DOMAIN tasks[i].text.versions

(* The last response to resolution i was an OK response with a JSON body   *)
(* that has a version map.                                                 *)
OkWithVersions(i) == tasks[i].text.body = "json" /\ tasks[i].text.hasVersions

(* C11: for a versioned specifier, an OK response whose version map holds  *)
(* no version satisfying the range ends the resolution at that response    *)
(* (it is not retried), with a VersionLookupError whose name is the        *)
(* original specifier.                                                     *)
C11_NoSatisfyingVersionFails ==
    \A i \in Positions :
        (/\ TableRoute(packages[i]) = "range"
         /\ OkWithVersions(i)
         /\ Satisfying(packages[i], tasks[i].text) = {}) =>
            /\ Done(i)
            /\ tasks[i].res = VersionLookupError(packages[i])

(* A versioned resolution has failed so on its first response, whose       *)
(* document lists 2.0.0 but nothing the range admits.                      *)
C11_Witness ==
    \E i \in Positions :
        /\ TableRoute(packages[i]) = "range"
        /\ OkWithVersions(i)
        /\ V200 \in DOMAIN tasks[i].text.versions
        /\ Satisfying(packages[i], tasks[i].text) = {}
        /\ tasks[i].sent = 1
        /\ tasks[i].res.kind = "VersionLookupError"
        /\ tasks[i].res.name = packages[i]

(* The metadata the document of the last response holds under the version  *)
(* resolution i resolved to.                                               *)
ResolvedMeta(i) == VersionMeta(tasks[i].text, tasks[i].res.version)

(* C12: in every successful outcome the package record is present exactly  *)
(* when the resolved version's "dependencies" is absent or no object (-1)  *)
(* or an object with no keys (0), and absent when it has one key or more.  *)
C12_PackageIffNoDependencies ==
    \A i \in Positions :
        Succeeded(i) => (tasks[i].res.package.some <=> ResolvedMeta(i).deps <= 0)

(* A versioned resolution has succeeded with a package record on a version *)
(* that has no "dependencies" object, and the document also lists a        *)
(* version that declares dependencies.                                     *)
C12_Witness ==
    \E i \in Positions :
        /\ TableRoute(packages[i]) = "range"
        /\ Succeeded(i)
        /\ ResolvedMeta(i).deps = -1
        /\ tasks[i].res.package.some
        /\ \E k \in DOMAIN tasks[i].text.versions : tasks[i].text.versions[k].deps > 0

(* The integrity field published for the version resolution i resolved to. *)
Published(i) == ResolvedMeta(i).dist.integrity

PublishedAlgorithms(i) == {Published(i)[k].algorithm : k \in 1..Len(Published(i))}

(* The digest published under algorithm a (one entry per algorithm in the  *)
(* documents explored here).                                               *)
PublishedDigest(i, a) ==
    Published(i)[CHOOSE k \in 1..Len(Published(i)) : Published(i)[k].algorithm = a].digest

(* C13: the integrity string of every successful outcome is                *)
(* "<algorithm>-<hex>" with the algorithm sha1 or sha512 and one hex hash, *)
(* whatever algorithms the published integrity string lists.               *)
C13_IntegrityIsCanonical ==
    \A i \in Positions :
        Succeeded(i) =>
            /\ tasks[i].res.integrity.prefix \in {"sha1", "sha512"}
            /\ tasks[i].res.integrity.hex # ""

(* C14: when the published integrity string holds several entries, the     *)
(* outcome's hash is that of the sha512 entry if there is one, otherwise   *)
(* that of the sha1 entry if there is one; entries of other algorithms do  *)
(* not decide it.                                                          *)
C14_StrongestOfSha1Sha512Survives ==
    \A i \in Positions :
        (Succeeded(i) /\ ResolvedMeta(i).dist.hasIntegrity /\ Len(Published(i)) >= 2) =>
            LET survivor == IF "sha512" \in PublishedAlgorithms(i) THEN "sha512"
                            ELSE IF "sha1" \in PublishedAlgorithms(i) THEN "sha1"
                            ELSE ""
            IN survivor # "" =>
                  tasks[i].res.integrity =
                      [prefix |-> survivor, hex |-> HexOfDigest(PublishedDigest(i, survivor))]

(* The data a VoltError carries that names a package or specifier (name,   *)
(* url, version) or a hash.                                                *)
CarriesIdentity(res) ==
    res.name # Null \/ res.url # Null \/ res.version # Null \/ res.hash # <<>>

(* C15: every failure a resolution returns carries the identity of the     *)
(* offending package, specifier or hash; no failure kind is returned       *)
(* without such data.                                                      *)
C15_EveryFailureCarriesIdentity ==
    \A i \in Positions : Failed(i) => CarriesIdentity(tasks[i].res)

(* The position of the last @ of a specifier that has one. *)
LastAt(s) == CHOOSE k \in DOMAIN s : s[k] = "@" /\ \A j \in DOMAIN s : s[j] = "@" => j <= k

(* The text after the last @, and the specifier without that @ and text. *)
TrailingRange(s) == SubSeq(s, LastAt(s) + 1, Len(s))

WithoutTrailingRange(s) == SubSeq(s, 1, LastAt(s) - 1)

(* C16: for a versioned specifier the range is the text after the last @,  *)
(* and the name in the request and in the package record is the specifier  *)
(* with only that trailing @range removed, also when the text @range       *)
(* occurs earlier in the specifier.                                        *)
C16_NameIsSpecifierWithoutTrailingRange ==
    \A i \in Positions :
        (TableRoute(packages[i]) = "range" /\ tasks[i].sent >= 1) =>
            /\ input_version(packages[i]) = TrailingRange(packages[i])
            /\ tasks[i].url = WithoutTrailingRange(packages[i])
            /\ tasks[i].res.package.some =>
                  tasks[i].res.package.name = WithoutTrailingRange(packages[i])

(* What the future of package_name in state t becomes at its first poll,   *)
(* and when the response (status, doc) to its request arrives: a function  *)
(* of its own state and of that response.                                  *)
AfterOwnStart(package_name, t) ==
    IF Shape(package_name) = "unknown"
    THEN [t EXCEPT !.pc = "done", !.res = Err("UnknownError", Null, Null, Null, <<>>)]
    ELSE IF Shape(package_name) # "latest" /\ ~ParseRange(input_version(package_name)).ok
    THEN [t EXCEPT !.pc = "done", !.res = Panic("Range::parse")]
    ELSE [t EXCEPT !.pc = "await", !.sent = 1, !.url = RequestPath(package_name)]

AfterOwnResponse(package_name, t, status, doc) ==
    LET r == HandleResponse(package_name, t.retries, status, doc)
        heard == [t EXCEPT !.seen = @ \cup {status},
                           !.text = IF status = "OK" THEN doc ELSE NoText]
    IN IF r.tag = "None"
       THEN [heard EXCEPT !.retries = @ + 1, !.sent = @ + 1]
       ELSE [heard EXCEPT !.pc = "done", !.res = r]

(* C17: retries are local to one resolution. Every step of a batch changes *)
(* the state of one resolution only (its retry counter, its requests, its  *)
(* result), and what that resolution becomes is determined by its own      *)
(* state and the response to its own request, whatever its siblings have   *)
(* done.                                                                   *)
C17_RetriesAreLocal ==
    [][\A i \in Positions :
          tasks'[i] # tasks[i] =>
              /\ \A j \in Positions \ {i} : tasks'[j] = tasks[j]
              /\ IF tasks[i].pc = "init"
                 THEN tasks'[i] = AfterOwnStart(packages[i], tasks[i])
                 ELSE \E status \in Statuses, doc \in Served(registry) \cup {NoText} :
                         tasks'[i] = AfterOwnResponse(packages[i], tasks[i], status, doc)]_vars

(* In a batch of two, the first resolution has retried MAX_RETRIES times   *)
(* and still runs while the second has succeeded on its first response.    *)
C17_Witness ==
    /\ Len(packages) = 2
    /\ tasks[1].pc = "await"
    /\ tasks[1].retries = MAX_RETRIES
    /\ Succeeded(2)
    /\ tasks[2].retries = 0

(* The dist object of the version resolution i resolved to has a shasum    *)
(* and no integrity field.                                                 *)
LegacyShasum(i) ==
    /\ ResolvedMeta(i).dist.obj
    /\ ~ResolvedMeta(i).dist.hasIntegrity
    /\ ResolvedMeta(i).dist.hasShasum

(* C18: when the selected version's dist has a shasum and no integrity     *)
(* field, the outcome's integrity string begins with "sha1-".              *)
C18_ShasumYieldsSha1 ==
    \A i \in Positions :
        (Succeeded(i) /\ LegacyShasum(i)) => tasks[i].res.integrity.prefix = "sha1"

(* A resolution has succeeded on a version published with a shasum only,   *)
(* its integrity the sha1-prefixed hex of what was encoded from the shasum.*)
C18_Witness ==
    \E i \in Positions :
        /\ Succeeded(i)
        /\ LegacyShasum(i)
        /\ tasks[i].res.integrity =
              [prefix |-> "sha1",
               hex |-> HexOfDigest(Base64OfShasum(ResolvedMeta(i).dist.shasum))]

(* C19: integrity normalization is idempotent on its canonical output:     *)
(* when the published integrity is a string normalization has produced     *)
(* ("sha512-<hex>" or "sha1-<hex>"), the outcome's integrity is that same  *)
(* string.                                                                 *)
C19_NormalizationIsIdempotent ==
    \A i \in Positions :
        (Succeeded(i) /\ ResolvedMeta(i).dist.hasIntegrity) =>
            \A h \in CanonicalOutputs :
                Published(i) = Republished(h) => tasks[i].res.integrity = h

(* The names exec was asked to remove. *)
Requested == {args[k] : k \in DOMAIN args}

(* C20: whatever the names passed to Remove::exec and however the spawned  *)
(* tasks interleave, once exec has returned the manifest on disk holds the *)
(* original dependencies minus exactly the requested names: every          *)
(* requested name is gone, every other entry is as it was.                 *)
C20_SavedManifestIsOriginalMinusRequested ==
    exec_pc = "Ok" => file = original \ Requested

(* The spawned task k has run to its end: it has held the lock, saved and  *)
(* dropped the guard.                                                      *)
Completed(k) == k \in DOMAIN handles /\ handles[k].pc = "done"

(* C21: Remove::exec is free of deadlock and waits for its tasks. Under    *)
(* fair scheduling every spawned task eventually completes (it acquires    *)
(* the lock, saves and releases it) and exec eventually ends; and exec has *)
(* returned Ok only when a task was spawned for every kept package and     *)
(* each has completed, the lock free again.                                *)
C21_ExecWaitsAndTerminates ==
    /\ [](exec_pc = "Ok" =>
            /\ Len(handles) = Len(removals)
            /\ \A k \in DOMAIN handles : Completed(k)
            /\ mutex = 0)
    /\ \A k \in 1..MaxArgs : (k \in DOMAIN handles) ~> Completed(k)
    /\ (exec_pc = "start") ~> (exec_pc \in {"Ok", "exit"})

(* exec has returned Ok after two tasks were spawned and completed. *)
C21_Witness ==
    /\ exec_pc = "Ok"
    /\ Len(handles) = 2
    /\ \A k \in DOMAIN handles : Completed(k)
    /\ joined = 2

(* C22: whenever an outcome carries a package record, the record's version *)
(* is the outcome's resolved version and the record's integrity is the     *)
(* outcome's integrity string, whatever the shape of the specifier.        *)
C22_RecordAgreesWithOutcome ==
    \A i \in Positions :
        (Succeeded(i) /\ tasks[i].res.package.some) =>
            /\ tasks[i].res.package.version = tasks[i].res.version
            /\ tasks[i].res.package.integrity = tasks[i].res.integrity

(* The last response to resolution i was an OK response with a JSON body   *)
(* that has no "versions" object.                                          *)
OkWithoutVersions(i) == tasks[i].text.body = "json" /\ ~tasks[i].text.hasVersions

(* C23: for both versioned shapes, an OK response whose document has no    *)
(* "versions" object ends the resolution with a VersionLookupError; no     *)
(* further request is issued, the response is not retried.                 *)
C23_NoVersionsObjectFails ==
    \A i \in Positions :
        (TableRoute(packages[i]) = "range" /\ OkWithoutVersions(i)) =>
            /\ Done(i)
            /\ tasks[i].res.kind = "VersionLookupError"

(* The failing position that comes first in the input. *)
FirstFailed == CHOOSE i \in Positions : Failed(i) /\ \A j \in Positions : Failed(j) => i <= j

(* C24: the error get_versions returns is that of the failing specifier    *)
(* with the lowest input position, whichever resolution failed first in    *)
(* time, and it is returned only once every resolution at a lower position *)
(* has completed successfully.                                             *)
C24_ErrorOfLowestFailedPosition ==
    returned = "Err" =>
        /\ \E i \in Positions : Failed(i)
        /\ error = tasks[FirstFailed].res
        /\ \A j \in Positions : j < FirstFailed => Done(j) /\ Succeeded(j)

(* Both resolutions of a batch of two have failed, the second before the   *)
(* first and with another error, and the batch has returned the error of   *)
(* the first.                                                              *)
C24_Witness ==
    /\ returned = "Err"
    /\ Len(packages) = 2
    /\ Failed(1) /\ Failed(2)
    /\ finished = <<2, 1>>
    /\ tasks[1].res # tasks[2].res
    /\ error = tasks[1].res

====
